---- MODULE Spec2Model ----
(***************************************************************************)
(* Test-plan creation and the test-execution workflow of lvnplus-apiV2.    *)
(*                                                                         *)
(* TestExecutionService is the class that carries every operation of the   *)
(* workflow (start, submitAnswer, submitAllAnswers, pause, resume,         *)
(* complete, createExecution); TestPlanService.createTestPlan seeds the    *)
(* first execution of a plan.  The rows of test_plans and test_executions  *)
(* are the state; every handler is one action.                             *)
(*                                                                         *)
(* JavaScript values keep their run-time type where the code compares them *)
(* with ===: an identifier is a number, a string or a bigint, and          *)
(* JSON.parse never yields a bigint.                                       *)
(***************************************************************************)
EXTENDS Integers, Sequences, FiniteSets, TLC

(***************************************************************************)
(* Bounds of the exploration.                                              *)
(***************************************************************************)
MaxPlans == 1
MaxExecs == 2
MaxTime == 2
\* distributeQuestions is applied to totals -1..MaxTotal and level counts
\* 0..MaxLevels
MaxTotal == 17
MaxLevels == 6
\* requests that may overlap
MaxRequests == 2
\* executions that overlapping createExecution requests may leave
MaxRaceExecs == 3

(***************************************************************************)
(* Values.                                                                 *)
(***************************************************************************)
NULL == -1
NoAnswer == "null"
Users == {1, 2, 3}

Num(n) == [type |-> "number", v |-> n]
Str(n) == [type |-> "string", v |-> n]
Big(n) == [type |-> "bigint", v |-> n]
ConversionError == [type |-> "error", v |-> 0]
\* the value of a property the request body does not carry
Undefined == [type |-> "undefined", v |-> 0]

\* a === b of JavaScript: same type and same value
StrictEquals(a, b) == a.type = b.type /\ a.v = b.v

RECURSIVE SumFun(_, _)
SumFun(f, keys) ==
  IF keys = {} THEN 0
  ELSE LET k == CHOOSE x \in keys : TRUE IN f[k] + SumFun(f, keys \ {k})

\* Object.values(o).reduce((a, b) => a + b, 0)
SumValues(o) == SumFun(o, DOMAIN o)

Range(s) == {s[i] : i \in DOMAIN s}

Take(s, n) == SubSeq(s, 1, IF n < Len(s) THEN n ELSE Len(s))

\* Math.round(p / q * 100) for p >= 0, q > 0
RoundPercent(p, q) == (200 * p + q) \div (2 * q)

(***************************************************************************)
(* The question bank, most recently created first (the order of            *)
(* filterQuestions).  options is the parsed form of the JSON column.       *)
(***************************************************************************)
OptionsA == << [option_text |-> "A", is_correct |-> TRUE],
               [option_text |-> "B", is_correct |-> FALSE] >>
OptionsB == << [option_text |-> "A", is_correct |-> FALSE],
               [option_text |-> "B", is_correct |-> TRUE] >>

Bank ==
  << [question_id |-> 5, difficulty_level |-> 3, subtopic_id |-> 1, active |-> TRUE,  options |-> OptionsA],
     [question_id |-> 4, difficulty_level |-> 1, subtopic_id |-> 1, active |-> FALSE, options |-> OptionsB],
     [question_id |-> 3, difficulty_level |-> 2, subtopic_id |-> 2, active |-> TRUE,  options |-> OptionsA],
     [question_id |-> 2, difficulty_level |-> 2, subtopic_id |-> 1, active |-> TRUE,  options |-> OptionsB],
     [question_id |-> 1, difficulty_level |-> 1, subtopic_id |-> 1, active |-> TRUE,  options |-> OptionsA] >>

(***************************************************************************)
(* Question distribution utility.                                          *)
(***************************************************************************)
Min(a, b) == IF a < b THEN a ELSE b
Max(a, b) == IF a > b THEN a ELSE b

\* levels = Math.max(1, Math.min(levels, 5))
ClampLevels(levels) == Max(1, Min(levels, 5))

\* if (totalQuestions < 0) throw new Error(...)
distributeQuestionsThrows(totalQuestions) == totalQuestions < 0

\* a distribution that drops the remainder
distributeQuestionsFloor(totalQuestions, levels) ==
  LET n == ClampLevels(levels)
  IN [i \in 1..n |-> totalQuestions \div n]

\* distribution[i] = floor(total / levels), plus one when i <= total % levels
distributeQuestions(totalQuestions, levels) ==
  LET n == ClampLevels(levels)
      questionsPerLevel == totalQuestions \div n
      remainder == totalQuestions % n
  IN [i \in 1..n |-> questionsPerLevel + (IF i <= remainder THEN 1 ELSE 0)]

validateQuestionDistribution(distribution) ==
  /\ \A key \in DOMAIN distribution :
        key >= 1 /\ key <= 5 /\ distribution[key] >= 0
  /\ SumValues(distribution) > 0

\* the topic a subtopic belongs to (subtopics.topic_id): subtopic n is a
\* subtopic of topic n
TopicOf(subtopic_id) == subtopic_id

(***************************************************************************)
(* QuestionService.filterQuestions: the active questions of one difficulty *)
(* (and of one subtopic when subtopicId is given), newest first, at most   *)
(* limit of them.  A subtopicId or difficulty of 0 is falsy and adds no    *)
(* condition.                                                              *)
(***************************************************************************)
QuestionMatches(q, filters) ==
  /\ q.active
  /\ (filters.subtopicId # 0 => q.subtopic_id = filters.subtopicId)
  /\ (filters.difficulty # 0 => q.difficulty_level = filters.difficulty)

filterQuestions(filters) ==
  Take(SelectSeq(Bank, LAMBDA q : QuestionMatches(q, filters)), filters.limit)

(***************************************************************************)
(* TestPlanService.selectQuestions                                         *)
(***************************************************************************)
FirstSubtopic(configuration) ==
  IF Len(configuration.subtopics) > 0 THEN configuration.subtopics[1] ELSE 0

RECURSIVE FetchLevels(_, _, _)
FetchLevels(distribution, configuration, difficulty) ==
  IF difficulty \notin DOMAIN distribution THEN <<>>
  ELSE filterQuestions([difficulty |-> difficulty,
                        limit |-> distribution[difficulty],
                        subtopicId |-> FirstSubtopic(configuration)])
       \o FetchLevels(distribution, configuration, difficulty + 1)

selectQuestions(configuration) ==
  LET totalQuestions == SumValues(configuration.questionCounts)
      questionDistribution == distributeQuestions(totalQuestions, 3)
  IN IF ~validateQuestionDistribution(questionDistribution)
     THEN [ok |-> FALSE, rows |-> <<>>]
     ELSE [ok |-> TRUE, rows |-> FetchLevels(questionDistribution, configuration, 1)]

(***************************************************************************)
(* TestPlanService.createTestPlan: resolution of the question counts.      *)
(***************************************************************************)
NumStr(n) == ToString(n)
TopicKey(n) == "topic_" \o ToString(n)
TopicIds == 1..3
DifficultyLabels == {"EASY", "MEDIUM", "HARD"}

difficultyMap ==
  [key \in {"EASY", "MEDIUM", "HARD", "1", "2", "3", "4", "5"} |->
     CASE key = "EASY" -> 1 [] key = "MEDIUM" -> 2 [] key = "HARD" -> 3
       [] key = "1" -> 1 [] key = "2" -> 2 [] key = "3" -> 3
       [] key = "4" -> 4 [] key = "5" -> 5]

\* key.startsWith('topic_')
StartsWithTopic(key) == key \in {TopicKey(n) : n \in TopicIds}

\* o[key] of JavaScript with a missing key read as 0 (undefined is falsy)
Get(o, key) == IF key \in DOMAIN o THEN o[key] ELSE 0

\* a || b || 0
FirstTruthy(a, b) == IF a # 0 THEN a ELSE IF b # 0 THEN b ELSE 0

IsTopicKeyed(configuration) ==
  \E key \in DOMAIN configuration.questionCounts :
     \/ StartsWithTopic(key)
     \/ \E i \in DOMAIN configuration.topics : NumStr(configuration.topics[i]) = key

IsDifficultyKeyed(configuration) ==
  \E key \in DOMAIN configuration.questionCounts : key \in DifficultyLabels

\* difficultyMap[key] || key, as the key of the resulting object
MappedKey(key) == IF key \in DOMAIN difficultyMap THEN NumStr(difficultyMap[key]) ELSE key

\* Object.keys lists integer-like keys before the others, so a label that
\* maps to the same level as a numeric key is written last and wins
DifficultyCounts(counts) ==
  [mapped \in {MappedKey(key) : key \in DOMAIN counts} |->
     LET labels == {key \in DOMAIN counts : key \in DifficultyLabels /\ MappedKey(key) = mapped}
     IN IF labels # {} THEN counts[CHOOSE key \in labels : TRUE] ELSE counts[mapped]]

TopicCounts(configuration) ==
  [key \in {NumStr(configuration.topics[i]) : i \in DOMAIN configuration.topics} |->
     LET topicId == CHOOSE n \in Range(configuration.topics) : NumStr(n) = key
     IN FirstTruthy(Get(configuration.questionCounts, TopicKey(topicId)),
                    Get(configuration.questionCounts, key))]

DefaultCounts(counts) ==
  LET totalQuestions == SumValues(counts)
      questionsPerDifficulty == totalQuestions \div 3
      remainingQuestions == totalQuestions % 3
  IN [key \in {"1", "2", "3"} |->
        LET index == difficultyMap[key] - 1
        IN questionsPerDifficulty + (IF index < remainingQuestions THEN 1 ELSE 0)]

ResolveQuestionCounts(configuration) ==
  IF IsTopicKeyed(configuration) THEN TopicCounts(configuration)
  ELSE IF IsDifficultyKeyed(configuration) THEN DifficultyCounts(configuration.questionCounts)
  ELSE DefaultCounts(configuration.questionCounts)

\* [...questions].sort(() => 0.5 - Math.random()): any order of the list
Shuffles(s) ==
  LET n == Len(s)
      perms == {p \in [1..n -> 1..n] : \A i, j \in 1..n : p[i] = p[j] => i = j}
  IN {[i \in 1..n |-> s[p[i]]] : p \in perms}

\* shuffled.slice(0, count)
selectRandomQuestions(questions, count) == {Take(sh, count) : sh \in Shuffles(questions)}

(***************************************************************************)
(* Rows of test_executions.  test_data is kept in parsed form; question    *)
(* identifiers keep the type JSON.parse gives them.                        *)
(***************************************************************************)
SnapshotQuestion(q, qid) ==
  [question_id |-> qid, subtopic_id |-> q.subtopic_id,
   options |-> q.options, difficulty_level |-> q.difficulty_level]

\* a response that starts as a wrong answer instead of an unevaluated one
NewResponseEvaluated(qid, timeSpent) ==
  [question_id |-> qid, student_answer |-> NoAnswer,
   is_correct |-> "false", time_spent |-> timeSpent]

NewResponse(qid, timeSpent) ==
  [question_id |-> qid, student_answer |-> NoAnswer,
   is_correct |-> "null", time_spent |-> timeSpent]

\* the row written by prisma.test_executions.create; user_id is a column the
\* service never writes, its value is the one the database holds for the row
NewExecution(planId, questions, responses, userId) ==
  [test_plan_id |-> planId, status |-> "NOT_STARTED",
   started_at |-> NULL, paused_at |-> NULL, completed_at |-> NULL,
   score |-> NULL, user_id |-> userId,
   questions |-> questions, responses |-> responses, endTime |-> NULL]

\* inflight[p] is the request p that has read its execution and not yet
\* written it (used where requests overlap)
VARIABLES plans, executions, now, last, inflight

vars == <<plans, executions, now, last, inflight>>

Requests == 1..MaxRequests

NoRequest ==
  [pc |-> "idle", executionId |-> 0, userId |-> 0,
   updateData |-> [question_id |-> Undefined, student_answer |-> NoAnswer, time_spent |-> 0],
   execution |-> NewExecution(0, <<>>, <<>>, NULL),
   seen |-> 0, order |-> 0, result |-> "none", op |-> "none",
   plan |-> [student_id |-> 0, planned_by |-> 0, hasQuestions |-> FALSE, questions |-> <<>>]]

NoCall == [op |-> "none", id |-> 0, actor |-> 0, before |-> "none",
           result |-> "none", msg |-> "", ret |-> 0, created |-> FALSE,
           alloc |-> <<>>, arg |-> <<>>, counts |-> <<>>]

Call(op, id, actor, before, result, msg) ==
  [op |-> op, id |-> id, actor |-> actor, before |-> before,
   result |-> result, msg |-> msg, ret |-> 0, created |-> FALSE, alloc |-> <<>>,
   arg |-> <<>>, counts |-> <<>>]

Init ==
  /\ plans = <<>>
  /\ executions = <<>>
  /\ now = 1
  /\ last = NoCall
  /\ inflight = [p \in Requests |-> NoRequest]

\* no call is being served
Idle == last = NoCall

\* the controller sends the outcome of the call it served (res.json or
\* next(error)); the service is then free for the next call
Respond ==
  /\ ~Idle
  /\ last' = NoCall
  /\ UNCHANGED <<plans, executions, now>>
  /\ UNCHANGED inflight

\* the clock read by new Date() and Date.now()
Tick ==
  /\ now < MaxTime
  /\ now' = now + 1
  /\ UNCHANGED <<plans, executions, last>>
  /\ UNCHANGED inflight

(***************************************************************************)
(* Inputs of createTestPlan.                                               *)
(***************************************************************************)
Configurations ==
  { [topics |-> <<1>>, subtopics |-> <<1>>, questionCounts |-> [k \in {"EASY", "MEDIUM"} |-> 1]],
    [topics |-> <<2>>, subtopics |-> <<2>>, questionCounts |-> [k \in {"total"} |-> 2]],
    [topics |-> <<1>>, subtopics |-> <<>>,  questionCounts |-> [k \in {"total"} |-> 0]],
    [topics |-> <<1>>, subtopics |-> <<2>>, questionCounts |-> [k \in {"MEDIUM"} |-> 1]],
    [topics |-> <<1>>, subtopics |-> <<1>>, questionCounts |-> [k \in {"EASY"} |-> 2]],
    [topics |-> <<1, 2>>, subtopics |-> <<1>>,
     questionCounts |-> [k \in {"EASY", "MEDIUM"} |-> 1]],
    [topics |-> <<1>>, subtopics |-> <<2>>, questionCounts |-> [k \in {"2"} |-> 1]],
    [topics |-> <<2>>, subtopics |-> <<3>>, questionCounts |-> [k \in {"2"} |-> 1]] }

Planners == {2}
Students == {1}
ColumnUserIds == {1, NULL}

CreateTestPlanRows(plannerId, studentId, randomQuestions, userId) ==
  /\ plans' = Append(plans, [student_id |-> studentId, planned_by |-> plannerId,
                             hasQuestions |-> FALSE, questions |-> <<>>])
  /\ executions' = Append(executions,
        NewExecution(Len(plans) + 1,
          [i \in DOMAIN randomQuestions |->
             SnapshotQuestion(randomQuestions[i], Num(randomQuestions[i].question_id))],
          [i \in DOMAIN randomQuestions |->
             NewResponse(Num(randomQuestions[i].question_id), 0)],
          userId))

createTestPlan(plannerId, studentId, configuration) ==
  /\ Idle
  /\ Len(plans) < MaxPlans
  /\ Len(executions) < MaxExecs
  /\ LET questionCounts == ResolveQuestionCounts(configuration)
         totalQuestions == SumValues(questionCounts)
         selected == selectQuestions(configuration)
         call == [Call("createTestPlan", Len(plans) + 1, plannerId, "none", "ok", "")
                    EXCEPT !.arg = <<configuration>>, !.counts = questionCounts]
     IN IF ~selected.ok
        THEN /\ last' = [call EXCEPT !.result = "ValidationError",
                                     !.msg = "Invalid question distribution"]
             /\ UNCHANGED <<plans, executions>>
        ELSE IF Len(selected.rows) < totalQuestions
        THEN /\ last' = [call EXCEPT !.result = "ValidationError",
                                     !.msg = "Not enough questions available"]
             /\ UNCHANGED <<plans, executions>>
        ELSE \E randomQuestions \in selectRandomQuestions(selected.rows, totalQuestions),
                userId \in ColumnUserIds :
               /\ CreateTestPlanRows(plannerId, studentId, randomQuestions, userId)
               /\ last' = [call EXCEPT !.ret = Len(executions) + 1, !.created = TRUE,
                             !.alloc = [i \in DOMAIN randomQuestions |->
                                          randomQuestions[i].question_id]]
  /\ UNCHANGED now
  /\ UNCHANGED inflight

(***************************************************************************)
(* TestExecutionService: identifier conversion and the access check.       *)
(***************************************************************************)
\* A string identifier is written Str(n) for the decimal text of n >= 0,
\* Str(-1) for the empty string and Str(-2) for text that is not a number.
\* Only a string is converted; a number or a bigint is returned as it is.
safeBigInt(value) ==
  IF value.type = "undefined" THEN Big(0)
  ELSE IF value.type = "string"
       THEN IF value.v < 0 THEN ConversionError ELSE Big(value.v)
       ELSE value

\* prisma.test_executions.count({ execution_id, user_id: Number(userId) }) > 0.
\* The test plan that findUnique includes is not consulted.
HasExecutionAccess(execution, userId) == execution.user_id = userId

findTestExecutionWithAccess(executionId, userId) ==
  IF executionId \notin DOMAIN executions THEN "NotFoundError"
  ELSE IF ~HasExecutionAccess(executions[executionId], userId) THEN "UnauthorizedError"
  ELSE "ok"

AccessMessage(access) ==
  IF access = "NotFoundError" THEN "Test execution not found for ID"
  ELSE "User does not have access to this test execution"

StatusOf(executionId) ==
  IF executionId \in DOMAIN executions THEN executions[executionId].status ELSE "none"

Fail(call, result, msg) ==
  /\ last' = [call EXCEPT !.result = result, !.msg = msg]
  /\ UNCHANGED <<plans, executions>>

Update(call, executionId, row) ==
  /\ executions' = [executions EXCEPT ![executionId] = row]
  /\ last' = [call EXCEPT !.ret = executionId]
  /\ UNCHANGED plans

ExecIds == 1..MaxExecs

(***************************************************************************)
(* startExecution, pauseExecution, resumeExecution                         *)
(***************************************************************************)
\* a start guard that also lets a paused test be started again
StartAllowedOrPaused(status) == status \in {"NOT_STARTED", "PAUSED"}

StartAllowed(status) == status = "NOT_STARTED"
PauseAllowed(status) == status = "IN_PROGRESS"
ResumeAllowed(status) == status = "PAUSED"

startExecution(executionId, userId) ==
  /\ Idle
  /\ LET access == findTestExecutionWithAccess(executionId, userId)
         call == Call("start", executionId, userId, StatusOf(executionId), "ok", "")
     IN IF access # "ok" THEN Fail(call, access, AccessMessage(access))
        ELSE IF ~StartAllowed(executions[executionId].status)
        THEN Fail(call, "ValidationError", "Test has already been started")
        ELSE Update(call, executionId,
               [executions[executionId] EXCEPT !.status = "IN_PROGRESS", !.started_at = now])
  /\ UNCHANGED now
  /\ UNCHANGED inflight

\* data: { status: 'PAUSED', paused_at: new Date() }
PausedRow(execution) == [execution EXCEPT !.status = "PAUSED", !.paused_at = now]

\* a resume that leaves the time of the pause in the row
ResumedRowStillStamped(execution) == [execution EXCEPT !.status = "IN_PROGRESS"]

\* data: { status: 'IN_PROGRESS', paused_at: null }
ResumedRow(execution) == [execution EXCEPT !.status = "IN_PROGRESS", !.paused_at = NULL]

pauseExecution(executionId, userId) ==
  /\ Idle
  /\ LET access == findTestExecutionWithAccess(executionId, userId)
         call == Call("pause", executionId, userId, StatusOf(executionId), "ok", "")
     IN IF access # "ok" THEN Fail(call, access, AccessMessage(access))
        ELSE IF ~PauseAllowed(executions[executionId].status)
        THEN Fail(call, "ValidationError", "Test is not in progress")
        ELSE Update(call, executionId, PausedRow(executions[executionId]))
  /\ UNCHANGED now
  /\ UNCHANGED inflight

resumeExecution(executionId, userId) ==
  /\ Idle
  /\ LET access == findTestExecutionWithAccess(executionId, userId)
         call == Call("resume", executionId, userId, StatusOf(executionId), "ok", "")
     IN IF access # "ok" THEN Fail(call, access, AccessMessage(access))
        ELSE IF ~ResumeAllowed(executions[executionId].status)
        THEN Fail(call, "ValidationError", "Test is not paused")
        ELSE Update(call, executionId, ResumedRow(executions[executionId]))
  /\ UNCHANGED now
  /\ UNCHANGED inflight

(***************************************************************************)
(* submitAnswer                                                            *)
(***************************************************************************)
BoolStr(b) == IF b THEN "true" ELSE "false"

\* a comparison with the first option, whether it is flagged correct or not
checkAnswerFirstOption(options, studentAnswer) ==
  IF options = <<>> THEN FALSE ELSE studentAnswer = options[1].option_text

\* studentAnswer === options.find(opt => opt.is_correct)?.option_text
checkAnswer(options, studentAnswer) ==
  LET correct == SelectSeq(options, LAMBDA opt : opt.is_correct)
  IN IF correct = <<>> THEN FALSE ELSE studentAnswer = correct[1].option_text

determineExecutionStatus(responses) ==
  IF \A i \in DOMAIN responses : responses[i].student_answer # NoAnswer
  THEN "COMPLETED" ELSE "IN_PROGRESS"

\* responses.findIndex(resp => resp.question_id === safeQuestionId), 0 for -1
FindResponseIndex(responses, safeQuestionId) ==
  LET hits == {i \in DOMAIN responses : StrictEquals(responses[i].question_id, safeQuestionId)}
  IN IF hits = {} THEN 0 ELSE CHOOSE i \in hits : \A j \in hits : i <= j

\* testData.responses.push(response): the answer is appended, not stored in its slot
PushResponse(responses, questionIndex, response) == Append(responses, response)

\* updatedResponses[questionIndex] = { ...old, student_answer, is_correct, time_spent }
SetResponse(responses, questionIndex, response) ==
  [responses EXCEPT ![questionIndex] = response]

AnsweredResponse(old, questions, questionIndex, updateData) ==
  [old EXCEPT !.student_answer = updateData.student_answer,
              !.is_correct = BoolStr(checkAnswer(questions[questionIndex].options,
                                                 updateData.student_answer)),
              !.time_spent = updateData.time_spent]

submitAnswer(executionId, userId, updateData) ==
  /\ Idle
  /\ LET safeQuestionId == safeBigInt(updateData.question_id)
         access == findTestExecutionWithAccess(executionId, userId)
         call == [Call("submitAnswer", executionId, userId, StatusOf(executionId), "ok", "")
                    EXCEPT !.arg = <<updateData>>]
     IN IF safeQuestionId = ConversionError
        THEN Fail(call, "ValidationError", "Invalid execution ID")
        ELSE IF access # "ok" THEN Fail(call, access, AccessMessage(access))
        ELSE LET execution == executions[executionId]
                 questionIndex == FindResponseIndex(execution.responses, safeQuestionId)
             IN IF questionIndex = 0
                THEN Fail(call, "NotFoundError", "Question not found in the test execution")
                ELSE LET updatedResponses ==
                           SetResponse(execution.responses, questionIndex,
                             AnsweredResponse(execution.responses[questionIndex],
                                              execution.questions, questionIndex, updateData))
                     IN Update(call, executionId,
                          [execution EXCEPT !.responses = updatedResponses,
                                            !.status = determineExecutionStatus(updatedResponses)])
  /\ UNCHANGED now
  /\ UNCHANGED inflight

\* request bodies: a numeric question_id, one that is not in any snapshot,
\* the same identifier sent as a string, an empty string, a null answer, a
\* body without question_id
UpdateInputs ==
  { [question_id |-> Num(1), student_answer |-> "A", time_spent |-> 3],
    [question_id |-> Num(2), student_answer |-> "A", time_spent |-> 3],
    [question_id |-> Num(2), student_answer |-> NoAnswer, time_spent |-> 0],
    [question_id |-> Num(9), student_answer |-> "A", time_spent |-> 3],
    [question_id |-> Str(1), student_answer |-> "A", time_spent |-> 3],
    [question_id |-> Str(-1), student_answer |-> "A", time_spent |-> 3],
    [question_id |-> Undefined, student_answer |-> "A", time_spent |-> 3] }

(***************************************************************************)
(* submitAllAnswers                                                        *)
(***************************************************************************)
\* one message for every status other than IN_PROGRESS
SubmitAllStatusMessage(status) ==
  "Cannot submit answers. Test must be started first. Please click Start Test before submitting answers."

\* !r.questionId || !r.answer || typeof r.timeTaken !== 'number'
InvalidSubmittedResponse(r) ==
  \/ r.questionId.type = "undefined"
  \/ (r.questionId.type = "number" /\ r.questionId.v = 0)
  \/ (r.questionId.type = "string" /\ r.questionId.v = -1)
  \/ r.answer = NoAnswer
  \/ r.answer = ""

\* submissionData.responses.find(r => r.questionId === Number(existing.question_id)), 0 for none
FindSubmitted(submitted, existingResponse) ==
  LET hits == {i \in DOMAIN submitted :
                 StrictEquals(submitted[i].questionId, Num(existingResponse.question_id.v))}
  IN IF hits = {} THEN 0 ELSE CHOOSE i \in hits : \A j \in hits : i <= j

\* { ...existingResponse, ...(submittedResponse && { student_answer, time_spent }) }
MergeResponse(existingResponse, submitted) ==
  LET k == FindSubmitted(submitted, existingResponse)
  IN IF k = 0 THEN existingResponse
     ELSE [existingResponse EXCEPT !.student_answer = submitted[k].answer,
                                   !.time_spent = submitted[k].timeTaken]

\* a row that also finishes the execution and stores a score
UpdatedTestDataScored(execution, submissionData) ==
  [execution EXCEPT
     !.responses = [i \in DOMAIN execution.responses |->
                      MergeResponse(execution.responses[i], submissionData.responses)],
     !.endTime = IF submissionData.endTime # 0 THEN submissionData.endTime ELSE now,
     !.status = "COMPLETED",
     !.score = 0,
     !.completed_at = now]

\* the row after the update: test_data is the only column written, with the
\* merged responses and timingData.endTime = submissionData.endTime || Date.now()
UpdatedTestData(execution, submissionData) ==
  [execution EXCEPT
     !.responses = [i \in DOMAIN execution.responses |->
                      MergeResponse(execution.responses[i], submissionData.responses)],
     !.endTime = IF submissionData.endTime # 0 THEN submissionData.endTime ELSE now]

submitAllAnswers(executionId, userId, submissionData) ==
  /\ Idle
  /\ LET access == findTestExecutionWithAccess(executionId, userId)
         call == [Call("submitAllAnswers", executionId, userId, StatusOf(executionId), "ok", "")
                    EXCEPT !.arg = submissionData.responses]
     IN IF access # "ok" THEN Fail(call, access, AccessMessage(access))
        ELSE LET execution == executions[executionId] IN
          IF execution.status # "IN_PROGRESS"
          THEN Fail(call, "ValidationError", SubmitAllStatusMessage(execution.status))
          ELSE IF submissionData.responses = <<>>
          THEN Fail(call, "ValidationError", "No answers to submit")
          ELSE IF \E i \in DOMAIN submissionData.responses :
                     InvalidSubmittedResponse(submissionData.responses[i])
          THEN Fail(call, "ValidationError", "Invalid response structure")
          ELSE Update(call, executionId, UpdatedTestData(execution, submissionData))
  /\ UNCHANGED now
  /\ UNCHANGED inflight

Submitted(questionId, answer, timeTaken) ==
  [questionId |-> questionId, answer |-> answer, timeTaken |-> timeTaken]

\* request bodies; endTime 0 stands for a missing endTime
SubmissionInputs ==
  { [responses |-> <<>>, endTime |-> 0],
    [responses |-> <<Submitted(Num(1), "B", 3)>>, endTime |-> 5],
    [responses |-> <<Submitted(Str(1), "B", 3)>>, endTime |-> 0],
    [responses |-> <<Submitted(Num(1), "", 3)>>, endTime |-> 5] }

(***************************************************************************)
(* completeExecution and calculateScore                                    *)
(***************************************************************************)
CompleteStatusMessage(status) ==
  CASE status = "NOT_STARTED" ->
         "Cannot complete test. Test must be started first. Please click Start Test before attempting to complete the test."
    [] status = "COMPLETED" -> "Cannot complete test. Test has already been completed."
    [] status = "PAUSED" -> "Cannot complete test while it is paused. Please resume the test first."
    [] OTHER -> ""

CompleteRejected(status) == status \in {"NOT_STARTED", "COMPLETED", "PAUSED"}

\* responses whose student_answer === question.correct_answer; the snapshot
\* questions carry options and no correct_answer, which reads as undefined
CorrectAnswers(execution) ==
  {i \in DOMAIN execution.responses :
     \E j \in DOMAIN execution.questions :
        /\ execution.questions[j].question_id = execution.responses[i].question_id
        /\ execution.responses[i].student_answer = "undefined"}

\* a score of 100 for every response, not divided by their number
calculateScoreSummed(execution, tx) ==
  [ok |-> TRUE, score |-> 100 * Len(execution.responses)]

\* The class declares calculateScore twice; the later declaration
\* (executionId, tx) is the method of the class.  It reads tx.test_executions,
\* and with tx undefined that read throws a TypeError.
calculateScore(execution, tx) ==
  IF tx = "undefined" THEN [ok |-> FALSE, score |-> NULL]
  \* Math.round(0 / 0 * 100) is NaN
  ELSE IF execution.responses = <<>> THEN [ok |-> TRUE, score |-> NULL]
  ELSE [ok |-> TRUE,
        score |-> RoundPercent(Cardinality(CorrectAnswers(execution)),
                               Len(execution.responses))]

completeExecution(executionId, userId) ==
  /\ Idle
  /\ LET access == findTestExecutionWithAccess(executionId, userId)
         call == Call("complete", executionId, userId, StatusOf(executionId), "ok", "")
     IN IF access # "ok" THEN Fail(call, access, AccessMessage(access))
        ELSE LET execution == executions[executionId]
                 score == calculateScore(execution, "undefined")
             IN IF CompleteRejected(execution.status)
                THEN Fail(call, "ValidationError", CompleteStatusMessage(execution.status))
                ELSE IF ~score.ok
                THEN Fail(call, "TypeError", "Cannot read properties of undefined")
                ELSE Update(call, executionId,
                       [execution EXCEPT !.status = "COMPLETED", !.completed_at = now,
                                         !.score = score.score])
  /\ UNCHANGED now
  /\ UNCHANGED inflight

(***************************************************************************)
(* TestPlanService.updateTestPlan: the planner replaces the configuration. *)
(***************************************************************************)
updateTestPlan(testPlanId, userId, configuration) ==
  /\ Idle
  /\ LET call == Call("updateTestPlan", testPlanId, userId, "none", "ok", "")
     IN IF testPlanId \notin DOMAIN plans
        THEN Fail(call, "NotFoundError", "Test plan not found")
        ELSE IF plans[testPlanId].planned_by # userId
        THEN Fail(call, "UnauthorizedError", "Not authorized to access this test plan")
        ELSE /\ plans' = [plans EXCEPT ![testPlanId] =
                            [@ EXCEPT !.hasQuestions = configuration.hasQuestions,
                                      !.questions = configuration.questions]]
             /\ last' = call
             /\ UNCHANGED executions
  /\ UNCHANGED now
  /\ UNCHANGED inflight

PlanIds == 1..MaxPlans

\* configurations with and without a questions list
ConfigurationUpdates ==
  { [hasQuestions |-> FALSE, questions |-> <<>>],
    [hasQuestions |-> TRUE, questions |-> <<>>],
    [hasQuestions |-> TRUE, questions |-> <<1>>] }

(***************************************************************************)
(* createExecution                                                         *)
(***************************************************************************)
\* test_executions: { orderBy: { execution_id: 'desc' }, take: 1 }
PlanExecutions(planId) == {e \in DOMAIN executions : executions[e].test_plan_id = planId}

LatestExecution(planId) ==
  IF PlanExecutions(planId) = {} THEN 0
  ELSE CHOOSE e \in PlanExecutions(planId) : \A f \in PlanExecutions(planId) : f <= e

\* studentUserIds.some(id => id === safeUserId) || plannedByUserIds.some(...)
IsAuthorized(plan, userId) == plan.student_id = userId \/ plan.planned_by = userId

\* no idempotent guard: an execution is created on every call
ReturnsExistingNever(status) == FALSE

ReturnsExisting(status) == status = "NOT_STARTED"

\* prisma.questions.findMany({ where: { question_id: { in: [...] } } })
FindQuestions(ids) == SelectSeq(Bank, LAMBDA q : q.question_id \in Range(ids))

\* the row of prisma.test_executions.create: the snapshot and the empty
\* responses of the selected questions
NewExecutionOfPlan(planId, selectedQuestions, userColumn) ==
  NewExecution(planId,
    [i \in DOMAIN selectedQuestions |->
       SnapshotQuestion(selectedQuestions[i], Str(selectedQuestions[i].question_id))],
    [i \in DOMAIN selectedQuestions |->
       NewResponse(Str(selectedQuestions[i].question_id), NULL)],
    userColumn)

\* question_id is a bigint column: JSON.stringify either throws on it or, where
\* BigInt.prototype.toJSON is installed, writes it as a string
createExecution(planId, userId) ==
  /\ Idle
  /\ LET call == Call("createExecution", planId, userId, "none", "ok", "")
     IN IF planId \notin DOMAIN plans
        THEN Fail(call, "NotFoundError", "Test plan not found")
        ELSE IF ~IsAuthorized(plans[planId], userId)
        THEN Fail(call, "UnauthorizedError", "You are not authorized to start this test")
        ELSE LET existing == LatestExecution(planId) IN
          IF existing # 0 /\ ReturnsExisting(executions[existing].status)
          THEN /\ last' = [call EXCEPT !.ret = existing, !.before = "NOT_STARTED"]
               /\ UNCHANGED <<plans, executions>>
          ELSE IF ~plans[planId].hasQuestions
          THEN Fail(call, "TypeError", "Cannot read properties of undefined")
          ELSE LET selectedQuestions == FindQuestions(plans[planId].questions) IN
               \/ /\ selectedQuestions # <<>>
                  /\ Fail(call, "TypeError", "Do not know how to serialize a BigInt")
               \/ /\ Len(executions) < MaxExecs
                  /\ \E userColumn \in ColumnUserIds :
                       executions' = Append(executions,
                         NewExecutionOfPlan(planId, selectedQuestions, userColumn))
                  /\ last' = [call EXCEPT !.ret = Len(executions) + 1, !.created = TRUE,
                                !.alloc = [i \in DOMAIN selectedQuestions |->
                                             selectedQuestions[i].question_id]]
                  /\ UNCHANGED plans
  /\ UNCHANGED now
  /\ UNCHANGED inflight

(***************************************************************************)
(* The administrative move to ABANDONED, made outside the service.         *)
(***************************************************************************)
Abandon(executionId) ==
  /\ Idle
  /\ executionId \in DOMAIN executions
  /\ executions[executionId].status \in {"IN_PROGRESS", "PAUSED"}
  /\ executions' = [executions EXCEPT ![executionId].status = "ABANDONED"]
  /\ last' = Call("abandon", executionId, 0, executions[executionId].status, "ok", "")
  /\ UNCHANGED <<plans, now>>
  /\ UNCHANGED inflight

(***************************************************************************)
(* Spec: the workflow of the executions of plans that keep the             *)
(* configuration they were created with (createTestPlan stores no          *)
(* questions list in it, so createExecution never gets as far as creating  *)
(* a second execution).                                                    *)
(***************************************************************************)
Next ==
  \/ Tick
  \/ Respond
  \/ \E plannerId \in Planners, studentId \in Students, configuration \in Configurations :
        createTestPlan(plannerId, studentId, configuration)
  \/ \E executionId \in ExecIds, userId \in Users : startExecution(executionId, userId)
  \/ \E executionId \in ExecIds, userId \in Users : pauseExecution(executionId, userId)
  \/ \E executionId \in ExecIds, userId \in Users : resumeExecution(executionId, userId)
  \/ \E executionId \in ExecIds, userId \in Users, updateData \in UpdateInputs :
        submitAnswer(executionId, userId, updateData)
  \/ \E executionId \in ExecIds, userId \in Users, submissionData \in SubmissionInputs :
        submitAllAnswers(executionId, userId, submissionData)
  \/ \E executionId \in ExecIds, userId \in Users : completeExecution(executionId, userId)
  \/ \E planId \in PlanIds, userId \in Users : createExecution(planId, userId)
  \/ \E executionId \in ExecIds : Abandon(executionId)

Spec == Init /\ [][Next]_vars

(***************************************************************************)
(* SpecPlan: the planner also rewrites the configuration, so that          *)
(* createExecution creates further executions of the plan; the executions  *)
(* are started, paused, resumed, completed and abandoned, and no answers   *)
(* are submitted.                                                          *)
(***************************************************************************)
NextPlan ==
  \/ Tick
  \/ Respond
  \/ \E plannerId \in Planners, studentId \in Students, configuration \in Configurations :
        createTestPlan(plannerId, studentId, configuration)
  \/ \E testPlanId \in PlanIds, userId \in Users, configuration \in ConfigurationUpdates :
        updateTestPlan(testPlanId, userId, configuration)
  \/ \E planId \in PlanIds, userId \in Users : createExecution(planId, userId)
  \/ \E executionId \in ExecIds, userId \in Users : startExecution(executionId, userId)
  \/ \E executionId \in ExecIds, userId \in Users : pauseExecution(executionId, userId)
  \/ \E executionId \in ExecIds, userId \in Users : resumeExecution(executionId, userId)
  \/ \E executionId \in ExecIds, userId \in Users : completeExecution(executionId, userId)
  \/ \E executionId \in ExecIds : Abandon(executionId)

SpecPlan == Init /\ [][NextPlan]_vars

(***************************************************************************)
(* SpecDistribute: the distribution utility on its own.  A call of          *)
(* distributeQuestions(totalQuestions, levels) is drawn by the initial      *)
(* state and the one step evaluates it.                                     *)
(***************************************************************************)
DistributeCall(totalQuestions, levels) ==
  [Call("distributeQuestions", 0, 0, "none", "pending", "")
     EXCEPT !.arg = <<totalQuestions, levels>>]

InitDistribute ==
  /\ plans = <<>>
  /\ executions = <<>>
  /\ now = 1
  /\ last \in {DistributeCall(totalQuestions, levels) :
                 totalQuestions \in -1..MaxTotal, levels \in 0..MaxLevels}
  /\ inflight = [p \in Requests |-> NoRequest]

callDistributeQuestions ==
  /\ last.op = "distributeQuestions"
  /\ last.result = "pending"
  /\ last' = IF distributeQuestionsThrows(last.arg[1])
              THEN [last EXCEPT !.result = "Error",
                                !.msg = "Total questions must be a non-negative number"]
              ELSE [last EXCEPT !.result = "ok",
                                !.alloc = distributeQuestions(last.arg[1], last.arg[2])]
  /\ UNCHANGED <<plans, executions, now>>
  /\ UNCHANGED inflight

NextDistribute == callDistributeQuestions

SpecDistribute == InitDistribute /\ [][NextDistribute]_vars

(***************************************************************************)
(* SpecRace: submitAnswer requests that overlap.  submitAnswer awaits the   *)
(* read of the execution row (findExecutionWithAccess) and later awaits the *)
(* update that writes test_data and status computed from the row it read;   *)
(* another request may run between the two.                                 *)
(***************************************************************************)
\* the writes to the execution that have been made
WritesDone(executionId) ==
  Cardinality({q \in Requests : /\ inflight[q].pc = "done"
                                /\ inflight[q].result = "ok"
                                /\ inflight[q].executionId = executionId})

Rejected(executionId, userId, updateData, result) ==
  [NoRequest EXCEPT !.pc = "done", !.executionId = executionId, !.userId = userId,
                    !.updateData = updateData, !.result = result, !.op = "submitAnswer"]

\* safeBigInt of the three identifiers and the read of the row
submitAnswerRead(p, executionId, userId, updateData) ==
  /\ inflight[p].pc = "idle"
  /\ LET safeQuestionId == safeBigInt(updateData.question_id)
         access == findTestExecutionWithAccess(executionId, userId)
     IN inflight' = [inflight EXCEPT ![p] =
          IF safeQuestionId = ConversionError
          THEN Rejected(executionId, userId, updateData, "ValidationError")
          ELSE IF access # "ok"
          THEN Rejected(executionId, userId, updateData, access)
          ELSE [pc |-> "read", executionId |-> executionId, userId |-> userId,
                updateData |-> updateData, execution |-> executions[executionId],
                seen |-> WritesDone(executionId), order |-> 0, result |-> "pending",
                op |-> "submitAnswer", plan |-> NoRequest.plan]]
  /\ UNCHANGED <<plans, executions, now, last>>

\* an update that patches the answered slot into the row as it is now
WrittenRowPatched(current, execution, updatedResponses) ==
  LET patched == [i \in DOMAIN current.responses |->
                    IF updatedResponses[i] # execution.responses[i]
                    THEN updatedResponses[i] ELSE current.responses[i]]
  IN [current EXCEPT !.responses = patched,
                     !.status = determineExecutionStatus(patched)]

\* prisma.test_executions.update({ data: { test_data, status } }): test_data
\* is the one parsed from the row that was read, with the new responses
WrittenRow(current, execution, updatedResponses) ==
  [current EXCEPT !.questions = execution.questions,
                  !.responses = updatedResponses,
                  !.endTime = execution.endTime,
                  !.status = determineExecutionStatus(updatedResponses)]

\* findIndex on the responses that were read, and the update
submitAnswerWrite(p) ==
  /\ inflight[p].pc = "read"
  /\ inflight[p].op = "submitAnswer"
  /\ LET request == inflight[p]
         execution == request.execution
         questionIndex == FindResponseIndex(execution.responses,
                                            safeBigInt(request.updateData.question_id))
     IN IF questionIndex = 0
        THEN /\ inflight' = [inflight EXCEPT ![p].pc = "done", ![p].result = "NotFoundError"]
             /\ UNCHANGED executions
        ELSE LET updatedResponses ==
                   SetResponse(execution.responses, questionIndex,
                     AnsweredResponse(execution.responses[questionIndex],
                                      execution.questions, questionIndex, request.updateData))
             IN /\ executions' = [executions EXCEPT ![request.executionId] =
                                    WrittenRow(executions[request.executionId],
                                               execution, updatedResponses)]
                /\ inflight' = [inflight EXCEPT ![p].pc = "done", ![p].result = "ok",
                                  ![p].order = WritesDone(request.executionId) + 1]
  /\ UNCHANGED <<plans, now, last>>

NextRace ==
  \/ Respond
  \/ \E plannerId \in Planners, studentId \in Students, configuration \in Configurations :
        createTestPlan(plannerId, studentId, configuration)
  \/ \E executionId \in ExecIds, userId \in Users : startExecution(executionId, userId)
  \/ \E p \in Requests, executionId \in ExecIds, userId \in Users, updateData \in UpdateInputs :
        submitAnswerRead(p, executionId, userId, updateData)
  \/ \E p \in Requests : submitAnswerWrite(p)

SpecRace == Init /\ [][NextRace]_vars

(***************************************************************************)
(* SpecStart: startExecution requests that overlap.  startExecution awaits  *)
(* the read of the row, checks the status it read, and then awaits an       *)
(* update whose where clause is the execution_id alone.                     *)
(***************************************************************************)
startExecutionRead(p, executionId, userId) ==
  /\ inflight[p].pc = "idle"
  /\ LET access == findTestExecutionWithAccess(executionId, userId)
     IN inflight' = [inflight EXCEPT ![p] =
          IF access # "ok"
          THEN [NoRequest EXCEPT !.pc = "done", !.executionId = executionId,
                                 !.userId = userId, !.result = access, !.op = "start"]
          ELSE [NoRequest EXCEPT !.pc = "read", !.executionId = executionId,
                                 !.userId = userId, !.execution = executions[executionId],
                                 !.result = "pending", !.op = "start"]]
  /\ UNCHANGED <<plans, executions, now, last>>

\* prisma.test_executions.update({ where: { execution_id },
\*   data: { status: 'IN_PROGRESS', started_at: new Date() } })
StartedRow(current) == [current EXCEPT !.status = "IN_PROGRESS", !.started_at = now]

startExecutionWrite(p) ==
  /\ inflight[p].pc = "read"
  /\ inflight[p].op = "start"
  /\ LET request == inflight[p]
     IN IF ~StartAllowed(request.execution.status)
        THEN /\ inflight' = [inflight EXCEPT ![p].pc = "done", ![p].result = "ValidationError"]
             /\ UNCHANGED executions
        ELSE /\ executions' = [executions EXCEPT ![request.executionId] =
                                 StartedRow(executions[request.executionId])]
             /\ inflight' = [inflight EXCEPT ![p].pc = "done", ![p].result = "ok"]
  /\ UNCHANGED <<plans, now, last>>

NextStart ==
  \/ Tick
  \/ Respond
  \/ \E plannerId \in Planners, studentId \in Students, configuration \in Configurations :
        createTestPlan(plannerId, studentId, configuration)
  \/ \E p \in Requests, executionId \in ExecIds, userId \in Users :
        startExecutionRead(p, executionId, userId)
  \/ \E p \in Requests : startExecutionWrite(p)

SpecStart == Init /\ [][NextStart]_vars

(***************************************************************************)
(* SpecCreate: createExecution requests that overlap.  createExecution      *)
(* awaits the read of the plan with its latest execution, decides on what   *)
(* it read, and later awaits the create.                                    *)
(***************************************************************************)
createExecutionRead(p, planId, userId) ==
  /\ inflight[p].pc = "idle"
  /\ LET done(result) == [NoRequest EXCEPT !.pc = "done", !.executionId = planId,
                                           !.userId = userId, !.result = result,
                                           !.op = "createExecution"]
         existing == LatestExecution(planId)
     IN inflight' = [inflight EXCEPT ![p] =
          IF planId \notin DOMAIN plans THEN done("NotFoundError")
          ELSE IF ~IsAuthorized(plans[planId], userId) THEN done("UnauthorizedError")
          ELSE IF existing # 0 /\ ReturnsExisting(executions[existing].status)
          THEN [done("ok") EXCEPT !.seen = existing]
          ELSE [done("pending") EXCEPT !.pc = "read", !.plan = plans[planId]]]
  /\ UNCHANGED <<plans, executions, now, last>>

createExecutionWrite(p) ==
  /\ inflight[p].pc = "read"
  /\ inflight[p].op = "createExecution"
  /\ LET request == inflight[p]
         failed(result) == /\ inflight' = [inflight EXCEPT ![p].pc = "done",
                                                           ![p].result = result]
                           /\ UNCHANGED executions
     IN IF ~request.plan.hasQuestions THEN failed("TypeError")
        ELSE LET selectedQuestions == FindQuestions(request.plan.questions) IN
             \/ /\ selectedQuestions # <<>>
                /\ failed("TypeError")
             \/ /\ Len(executions) < MaxRaceExecs
                /\ \E userColumn \in ColumnUserIds :
                     executions' = Append(executions,
                       NewExecutionOfPlan(request.executionId, selectedQuestions, userColumn))
                /\ inflight' = [inflight EXCEPT ![p].pc = "done", ![p].result = "ok",
                                                ![p].seen = Len(executions) + 1]
  /\ UNCHANGED <<plans, now, last>>

NextCreate ==
  \/ Respond
  \/ \E plannerId \in Planners, studentId \in Students, configuration \in Configurations :
        createTestPlan(plannerId, studentId, configuration)
  \/ \E testPlanId \in PlanIds, userId \in Users, configuration \in ConfigurationUpdates :
        updateTestPlan(testPlanId, userId, configuration)
  \/ \E executionId \in ExecIds, userId \in Users : startExecution(executionId, userId)
  \/ \E p \in Requests, planId \in PlanIds, userId \in Users :
        createExecutionRead(p, planId, userId)
  \/ \E p \in Requests : createExecutionWrite(p)

SpecCreate == Init /\ [][NextCreate]_vars

(***************************************************************************)
(* SpecFault: createTestPlan awaits prisma.test_plans.create and then       *)
(* prisma.test_executions.create, two separate writes outside any           *)
(* transaction.  The second write can reject (the database refuses the row, *)
(* or JSON.parse(q.options) throws while its data is built); the rejection  *)
(* propagates to the caller and the first write stays.                      *)
(***************************************************************************)
createTestPlanExecutionFails(plannerId, studentId, configuration) ==
  /\ Idle
  /\ Len(plans) < MaxPlans
  /\ LET questionCounts == ResolveQuestionCounts(configuration)
         totalQuestions == SumValues(questionCounts)
         selected == selectQuestions(configuration)
     IN /\ selected.ok
        /\ Len(selected.rows) >= totalQuestions
        /\ plans' = Append(plans, [student_id |-> studentId, planned_by |-> plannerId,
                                   hasQuestions |-> FALSE, questions |-> <<>>])
        /\ last' = [Call("createTestPlan", Len(plans) + 1, plannerId, "none", "Error", "")
                      EXCEPT !.arg = <<configuration>>, !.counts = questionCounts]
  /\ UNCHANGED <<executions, now, inflight>>

NextFault ==
  \/ Tick
  \/ Respond
  \/ \E plannerId \in Planners, studentId \in Students, configuration \in Configurations :
        createTestPlan(plannerId, studentId, configuration)
  \/ \E plannerId \in Planners, studentId \in Students, configuration \in Configurations :
        createTestPlanExecutionFails(plannerId, studentId, configuration)
  \/ \E testPlanId \in PlanIds, userId \in Users, configuration \in ConfigurationUpdates :
        updateTestPlan(testPlanId, userId, configuration)
  \/ \E planId \in PlanIds, userId \in Users : createExecution(planId, userId)
  \/ \E executionId \in ExecIds, userId \in Users : startExecution(executionId, userId)

SpecFault == Init /\ [][NextFault]_vars

(***************************************************************************)
(* Properties.                                                             *)
(***************************************************************************)
ExecutionOps == {"start", "submitAnswer", "submitAllAnswers", "pause", "resume", "complete"}

\* this step serves a call of op; last' is its record
Served(op) == Idle /\ last'.op = op

\* the call served in this step found its execution and passed the access check
PassedAccess ==
  /\ last'.id \in DOMAIN executions
  /\ last'.result \notin {"NotFoundError", "UnauthorizedError"}

PlanOf(executionId) == plans[executions[executionId].test_plan_id]

IsStudentOrPlanner(userId, executionId) ==
  userId \in {PlanOf(executionId).student_id, PlanOf(executionId).planned_by}

RequiredStatus(op) ==
  CASE op = "start" -> "NOT_STARTED" [] op = "pause" -> "IN_PROGRESS" [] op = "resume" -> "PAUSED"

TargetStatus(op) ==
  CASE op = "start" -> "IN_PROGRESS" [] op = "pause" -> "PAUSED" [] op = "resume" -> "IN_PROGRESS"

TransitionGuarded(op) ==
  (Served(op) /\ PassedAccess) =>
     IF executions[last'.id].status = RequiredStatus(op)
     THEN /\ last'.result = "ok"
          /\ executions'[last'.id].status = TargetStatus(op)
     ELSE /\ last'.result = "ValidationError"
          /\ executions' = executions

\* C1: a call of start, pause or resume that passes the access check succeeds
\* exactly when the status is NOT_STARTED, IN_PROGRESS or PAUSED respectively;
\* in every other status it fails with the invalid-state error
\* (ValidationError) and no execution row changes.
C1_TransitionGuards ==
  [][\A op \in {"start", "pause", "resume"} : TransitionGuarded(op)]_vars

\* C1 witness: pause was called on a paused execution and was rejected
C1_PauseRejectedWhenPaused ==
  /\ last.op = "pause"
  /\ last.before = "PAUSED"
  /\ last.result = "ValidationError"

\* C2: submitAnswer called by the plan's student or planner on an execution
\* whose status is not IN_PROGRESS fails and changes neither the responses
\* nor the status of the execution.
C2_SubmitAnswerRequiresInProgress ==
  [][(/\ Served("submitAnswer")
      /\ last'.id \in DOMAIN executions
      /\ IsStudentOrPlanner(last'.actor, last'.id)
      /\ executions[last'.id].status # "IN_PROGRESS")
     => /\ last'.result # "ok"
        /\ executions'[last'.id].responses = executions[last'.id].responses
        /\ executions'[last'.id].status = executions[last'.id].status]_vars

\* C3: once the status of an execution is COMPLETED, no step changes its
\* status, score, completed_at or responses.
C3_CompletedImmutable ==
  [][\A e \in DOMAIN executions :
       executions[e].status = "COMPLETED" =>
         /\ executions'[e].status = "COMPLETED"
         /\ executions'[e].score = executions[e].score
         /\ executions'[e].completed_at = executions[e].completed_at
         /\ executions'[e].responses = executions[e].responses]_vars

RejectedStatuses == {"NOT_STARTED", "COMPLETED", "PAUSED"}

\* C4: a call of complete that passes the access check succeeds when the
\* status is IN_PROGRESS, setting status COMPLETED, completed_at to the
\* current time and a score; on NOT_STARTED, COMPLETED and PAUSED it fails,
\* leaves the executions unchanged, and its message is not the message of
\* either of the other two statuses; on any other status it does not succeed.
C4_CompleteGuards ==
  [][(Served("complete") /\ PassedAccess) =>
       LET status == executions[last'.id].status IN
       IF status = "IN_PROGRESS"
       THEN /\ last'.result = "ok"
            /\ executions'[last'.id].status = "COMPLETED"
            /\ executions'[last'.id].completed_at = now
            /\ executions'[last'.id].score # NULL
       ELSE IF status \in RejectedStatuses
       THEN /\ last'.result = "ValidationError"
            /\ executions' = executions
            /\ \A other \in RejectedStatuses \ {status} :
                  last'.msg # CompleteStatusMessage(other)
       ELSE last'.result # "ok"]_vars

\* round(100 * correctCount / totalQuestions) over the snapshot; 0 for an
\* empty snapshot
ExpectedScore(row) ==
  IF Len(row.questions) = 0 THEN 0
  ELSE RoundPercent(
         Cardinality({i \in DOMAIN row.questions :
                        checkAnswer(row.questions[i].options, row.responses[i].student_answer)}),
         Len(row.questions))

\* C5: an execution that moves from IN_PROGRESS to COMPLETED stores the score
\* round(100 * correctCount / totalQuestions), and complete called on an
\* IN_PROGRESS execution with an empty snapshot succeeds with score 0.
C5_ScoreOnCompletion ==
  [][/\ \A e \in DOMAIN executions :
          (executions[e].status = "IN_PROGRESS" /\ executions'[e].status = "COMPLETED")
            => executions'[e].score = ExpectedScore(executions'[e])
     /\ (/\ Served("complete")
         /\ PassedAccess
         /\ executions[last'.id].status = "IN_PROGRESS"
         /\ executions[last'.id].questions = <<>>)
        => /\ last'.result = "ok"
           /\ executions'[last'.id].score = 0]_vars

\* C6: a call of start, submitAnswer, submitAllAnswers, pause, resume or
\* complete on an existing execution fails with UnauthorizedError and changes
\* nothing when the actor is neither the plan's student nor its planner, and
\* is not answered with UnauthorizedError when the actor is one of them.
C6_AccessControl ==
  [][\A op \in ExecutionOps :
       (Served(op) /\ last'.id \in DOMAIN executions) =>
          IF IsStudentOrPlanner(last'.actor, last'.id)
          THEN last'.result # "UnauthorizedError"
          ELSE /\ last'.result = "UnauthorizedError"
               /\ executions' = executions]_vars

\* C7: in every state every execution has as many responses as snapshot
\* questions, the response in each slot carries the identifier of the
\* question in that slot, and no identifier appears in two slots.
C7_ResponsesMatchQuestions ==
  \A e \in DOMAIN executions :
     LET row == executions[e] IN
     /\ Len(row.responses) = Len(row.questions)
     /\ \A i \in DOMAIN row.questions :
          /\ i \in DOMAIN row.responses
          /\ row.responses[i].question_id = row.questions[i].question_id
     /\ \A i, j \in DOMAIN row.responses :
          row.responses[i].question_id = row.responses[j].question_id => i = j

\* C7 witness: an answer was stored in a two-question execution after a
\* submitAllAnswers call had rewritten its responses
C7_AnsweredTwoQuestionExecution ==
  /\ last.op = "submitAnswer"
  /\ last.result = "ok"
  /\ Len(executions[last.id].questions) = 2
  /\ executions[last.id].endTime # NULL

\* C8: the execution created by createTestPlan or by createExecution has
\* status NOT_STARTED, a snapshot of exactly the allocated questions in their
\* order, one response per snapshot question with a null answer and a null
\* correctness flag, and null started_at, paused_at, completed_at and score.
C8_NewExecutionIsFresh ==
  (last.op \in {"createTestPlan", "createExecution"} /\ last.created) =>
     LET row == executions[last.ret] IN
     /\ row.status = "NOT_STARTED"
     /\ row.started_at = NULL /\ row.paused_at = NULL
     /\ row.completed_at = NULL /\ row.score = NULL
     /\ [i \in DOMAIN row.questions |-> row.questions[i].question_id.v] = last.alloc
     /\ Len(row.responses) = Len(row.questions)
     /\ \A i \in DOMAIN row.responses :
          /\ row.responses[i].question_id = row.questions[i].question_id
          /\ row.responses[i].student_answer = NoAnswer
          /\ row.responses[i].is_correct = "null"

\* C8 witness: createExecution has just created the second execution of a
\* plan whose first execution, with two questions, came from createTestPlan
C8_SecondExecutionCreated ==
  /\ last.op = "createExecution"
  /\ last.created
  /\ last.ret = 2
  /\ Len(executions[1].questions) = 2

\* C9: createExecution called by the plan's student or planner while the
\* plan's most recent execution is NOT_STARTED succeeds, returns that
\* execution and leaves the executions unchanged.
C9_CreateExecutionIdempotent ==
  [][(/\ Served("createExecution")
      /\ last'.id \in DOMAIN plans
      /\ last'.actor \in {plans[last'.id].student_id, plans[last'.id].planned_by}
      /\ LatestExecution(last'.id) # 0
      /\ executions[LatestExecution(last'.id)].status = "NOT_STARTED")
     => /\ last'.result = "ok"
        /\ last'.ret = LatestExecution(last'.id)
        /\ executions' = executions]_vars

\* C9 witness: createExecution returned the plan's second execution, which
\* was still NOT_STARTED, without creating one
C9_ExistingExecutionReturned ==
  /\ last.op = "createExecution"
  /\ last.result = "ok"
  /\ ~last.created
  /\ last.ret = 2
  /\ Len(executions) = 2

\* C10: a call of submitAllAnswers that passes the access check on a
\* NOT_STARTED, COMPLETED or PAUSED execution fails, leaves the executions
\* unchanged, and its message is not the message given for either of the
\* other two statuses.
C10_SubmitAllDistinctMessages ==
  [][(/\ Served("submitAllAnswers")
      /\ PassedAccess
      /\ executions[last'.id].status \in RejectedStatuses)
     => /\ last'.result = "ValidationError"
        /\ executions' = executions
        /\ \A other \in RejectedStatuses \ {executions[last'.id].status} :
              last'.msg # SubmitAllStatusMessage(other)]_vars

\* the submitted identifier names the question of the slot, whether it was
\* sent as a number or as its decimal text
SameQuestion(questionId, slotId) ==
  /\ questionId.type \in {"number", "string"}
  /\ questionId.v = slotId.v

\* C11: a successful submitAllAnswers keeps the number and order of the
\* response slots; a slot whose question is named in the input gets the
\* answer and time of an input entry naming it, and every other slot is left
\* exactly as it was.
C11_SubmitAllMerges ==
  [][(Served("submitAllAnswers") /\ last'.result = "ok") =>
       LET before == executions[last'.id].responses
           after == executions'[last'.id].responses
           submitted == last'.arg
       IN /\ Len(after) = Len(before)
          /\ \A i \in DOMAIN before :
               LET hits == {k \in DOMAIN submitted :
                              SameQuestion(submitted[k].questionId, before[i].question_id)}
               IN /\ after[i].question_id = before[i].question_id
                  /\ IF hits = {} THEN after[i] = before[i]
                     ELSE \E k \in hits :
                            /\ after[i].student_answer = submitted[k].answer
                            /\ after[i].time_spent = submitted[k].timeTaken]_vars

\* C12: a successful submitAllAnswers leaves the execution IN_PROGRESS and
\* changes nothing of its row except the responses and the end time: score,
\* started_at, paused_at and completed_at keep their values, and no other
\* execution and no plan is touched.
C12_SubmitAllFrame ==
  [][(Served("submitAllAnswers") /\ last'.result = "ok") =>
       LET before == executions[last'.id]
           after == executions'[last'.id]
       IN /\ before.status = "IN_PROGRESS"
          /\ after.status = "IN_PROGRESS"
          /\ after.score = before.score
          /\ after.started_at = before.started_at
          /\ after.paused_at = before.paused_at
          /\ after.completed_at = before.completed_at
          /\ after = [before EXCEPT !.responses = after.responses,
                                    !.endTime = after.endTime]
          /\ \A e \in DOMAIN executions : e # last'.id => executions'[e] = executions[e]
          /\ plans' = plans]_vars

\* submitAllAnswers has stored an answer and an end time, and the execution
\* is still in progress with no score
C12_SubmittedStillInProgress ==
  /\ last.op = "submitAllAnswers"
  /\ last.result = "ok"
  /\ executions[last.id].status = "IN_PROGRESS"
  /\ executions[last.id].score = NULL
  /\ executions[last.id].endTime = 5
  /\ \E i \in DOMAIN executions[last.id].responses :
       executions[last.id].responses[i].student_answer = "B"

\* the call of distributeQuestions that was evaluated, for a valid input
Distributed(totalQuestions, levels) ==
  /\ last.op = "distributeQuestions"
  /\ last.result = "ok"
  /\ last.arg = <<totalQuestions, levels>>

\* C13: for every total >= 0 and every tier count n in 1..5,
\* distributeQuestions(total, n) has the keys 1..n, gives tier i
\* floor(total/n)+1 when i <= total mod n and floor(total/n) otherwise, so
\* every value is >= 0 and the values sum to total; (13,3) gives 5,4,4,
\* (10,5) gives 2 each and (17,5) gives 4,4,3,3,3.
C13_DistributeExact ==
  /\ \A total \in 0..MaxTotal, n \in 1..5 :
       Distributed(total, n) =>
         /\ DOMAIN last.alloc = 1..n
         /\ \A i \in 1..n :
              /\ last.alloc[i] = (total \div n) + (IF i <= total % n THEN 1 ELSE 0)
              /\ last.alloc[i] >= 0
         /\ SumValues(last.alloc) = total
  /\ Distributed(13, 3) => last.alloc = <<5, 4, 4>>
  /\ Distributed(10, 5) => last.alloc = <<2, 2, 2, 2, 2>>
  /\ Distributed(17, 5) => last.alloc = <<4, 4, 3, 3, 3>>

\* distributeQuestions(17, 5) was evaluated and left a remainder to spread
C13_SeventeenOverFive ==
  /\ Distributed(17, 5)
  /\ Len(last.alloc) = 5
  /\ last.alloc[1] = 4
  /\ last.alloc[5] = 3

\* the configuration of the createTestPlan call that was served
PlanConfiguration == last'.arg[1]

\* the active questions of the pool in the bucket of one difficulty level,
\* within the first configured subtopic
Candidates(configuration, key) ==
  {i \in DOMAIN Bank :
     /\ Bank[i].active
     /\ key \in DOMAIN difficultyMap
     /\ Bank[i].difficulty_level = difficultyMap[key]
     /\ (FirstSubtopic(configuration) # 0 =>
           Bank[i].subtopic_id = FirstSubtopic(configuration))}

\* the pool holds the requested count of every bucket of the target
\* distribution
PoolSufficient(configuration) ==
  LET target == ResolveQuestionCounts(configuration)
  IN \A key \in DOMAIN target : Cardinality(Candidates(configuration, key)) >= target[key]

\* a configuration whose target distribution is keyed by difficulty level
\* and asks for at least one question
DifficultyBuckets(configuration) ==
  /\ ~IsTopicKeyed(configuration)
  /\ SumValues(ResolveQuestionCounts(configuration)) > 0

\* C14: when the pool holds at least the requested count of active questions
\* in every difficulty bucket of the target distribution, createTestPlan
\* succeeds and the snapshot of the new execution has exactly total
\* questions, total being the sum of the target distribution, no question
\* appearing twice.
C14_AllocatorComplete ==
  [][(/\ Served("createTestPlan")
      /\ DifficultyBuckets(PlanConfiguration)
      /\ PoolSufficient(PlanConfiguration)) =>
       /\ last'.result = "ok"
       /\ last'.created
       /\ Len(executions') = Len(executions) + 1
       /\ LET questions == executions'[Len(executions')].questions
          IN /\ Len(questions) = SumValues(ResolveQuestionCounts(PlanConfiguration))
             /\ \A i, j \in DOMAIN questions :
                  questions[i].question_id = questions[j].question_id => i = j]_vars

\* C15: when a difficulty bucket of the target distribution has fewer active
\* questions in the pool than it asks for, createTestPlan fails with the
\* not-enough-questions error and stores neither a plan nor an execution.
C15_AllocatorFailsWhenShort ==
  [][(/\ Served("createTestPlan")
      /\ DifficultyBuckets(PlanConfiguration)
      /\ ~PoolSufficient(PlanConfiguration)) =>
       /\ last'.result = "ValidationError"
       /\ last'.msg = "Not enough questions available"
       /\ ~last'.created
       /\ plans' = plans
       /\ executions' = executions]_vars

\* an identifier that names nothing: undefined, the empty string or text
\* that is not a number
NotAnIdentifier(value) ==
  \/ value.type = "undefined"
  \/ (value.type = "string" /\ value.v < 0)

\* C16: a submitAnswer call on an execution the caller may access, whose
\* question identifier is undefined, empty or unparseable, is rejected with
\* a ValidationError and changes nothing; the identifier is never replaced
\* by the identity 0 and looked up.
C16_NoDefaultIdentity ==
  [][(/\ Served("submitAnswer")
      /\ last'.id \in DOMAIN executions
      /\ HasExecutionAccess(executions[last'.id], last'.actor)
      /\ NotAnIdentifier(last'.arg[1].question_id)) =>
       /\ last'.result = "ValidationError"
       /\ executions' = executions
       /\ plans' = plans]_vars

\* the slot of the execution that request p answers, 0 when there is none
SlotOf(p) ==
  FindResponseIndex(executions[inflight[p].executionId].responses,
                    safeBigInt(inflight[p].updateData.question_id))

\* requests p and q have both written the same execution, for two different
\* questions, and q was the later writer
BothWrote(p, q) ==
  /\ p # q
  /\ inflight[p].pc = "done" /\ inflight[p].result = "ok"
  /\ inflight[q].pc = "done" /\ inflight[q].result = "ok"
  /\ inflight[p].executionId = inflight[q].executionId
  /\ inflight[p].order < inflight[q].order
  /\ SlotOf(p) # SlotOf(q)

\* C17: when two submitAnswer requests for different questions of one
\* execution have both written, the answer of the later writer is persisted,
\* and the answer of the earlier writer is persisted exactly when the later
\* writer read the row after the earlier write (the requests ran one after
\* the other); when the reads and writes interleave the earlier answer is
\* lost, because the whole response list is rewritten from the row read.
C17_LostUpdate ==
  \A p, q \in Requests :
    BothWrote(p, q) =>
      LET responses == executions[inflight[q].executionId].responses
      IN /\ responses[SlotOf(q)].student_answer = inflight[q].updateData.student_answer
         /\ responses[SlotOf(q)].time_spent = inflight[q].updateData.time_spent
         /\ (inflight[q].seen = 0 =>
               responses[SlotOf(p)] = inflight[q].execution.responses[SlotOf(p)])
         /\ (inflight[q].seen > 0 =>
               /\ responses[SlotOf(p)].student_answer = inflight[p].updateData.student_answer
               /\ responses[SlotOf(p)].time_spent = inflight[p].updateData.time_spent)

\* two requests answered questions 1 and 2 of an execution in progress,
\* the second read before the first wrote, and only one answer is persisted
C17_OneAnswerLost ==
  \E p, q \in Requests :
    /\ BothWrote(p, q)
    /\ inflight[q].seen = 0
    /\ inflight[q].execution.status = "IN_PROGRESS"
    /\ inflight[p].execution.status = "IN_PROGRESS"
    /\ inflight[p].updateData.student_answer # NoAnswer
    /\ executions[inflight[q].executionId].responses[SlotOf(p)].student_answer = NoAnswer
    /\ executions[inflight[q].executionId].responses[SlotOf(q)].student_answer # NoAnswer

\* C18: ABANDONED is terminal: a call of start, submitAnswer,
\* submitAllAnswers, pause, resume or complete on an abandoned execution
\* fails, and the status of an abandoned execution never changes.
C18_AbandonedTerminal ==
  [][\A executionId \in DOMAIN executions :
       executions[executionId].status = "ABANDONED" =>
         /\ executions'[executionId].status = "ABANDONED"
         /\ \A op \in ExecutionOps :
              (Served(op) /\ last'.id = executionId) => last'.result # "ok"]_vars

CeilDiv(a, b) == (a + b - 1) \div b

\* C20: when the configuration names more than one topic, no topic has more
\* than ceil(selectedCount / topicCount) questions in the snapshot of the
\* execution createTestPlan creates, selectedCount being the number of
\* questions selected from the buckets, and the snapshot holds no more than
\* the required total.
C20_TopicBalance ==
  [][(/\ Served("createTestPlan")
      /\ last'.created
      /\ Len(PlanConfiguration.topics) > 1) =>
       LET questions == executions'[Len(executions')].questions
           selectedCount == Len(selectQuestions(PlanConfiguration).rows)
           perTopic == CeilDiv(selectedCount, Len(PlanConfiguration.topics))
       IN /\ \A topicId \in Range(PlanConfiguration.topics) :
               Cardinality({i \in DOMAIN questions :
                              TopicOf(questions[i].subtopic_id) = topicId}) <= perTopic
          /\ Len(questions) <= SumValues(ResolveQuestionCounts(PlanConfiguration))]_vars

\* the submitAnswer call served in this step reached the execution: the
\* execution exists, the caller has access and the question identifier is one
SubmitAnswerReached ==
  /\ Served("submitAnswer")
  /\ last'.id \in DOMAIN executions
  /\ HasExecutionAccess(executions[last'.id], last'.actor)
  /\ ~NotAnIdentifier(last'.arg[1].question_id)

\* the question named by the call is part of the snapshot of the execution
InSnapshot ==
  \E i \in DOMAIN executions[last'.id].questions :
     SameQuestion(last'.arg[1].question_id, executions[last'.id].questions[i].question_id)

\* C21: submitAnswer for a question that is not part of the snapshot of the
\* execution fails with NotFoundError and leaves responses and status as
\* they were; for a question of the snapshot it does not fail with
\* NotFoundError.
C21_QuestionNotFound ==
  [][SubmitAnswerReached =>
       /\ (~InSnapshot =>
             /\ last'.result = "NotFoundError"
             /\ executions' = executions)
       /\ (InSnapshot => last'.result # "NotFoundError")]_vars

\* the text of the option flagged correct of the snapshot question with the
\* given identifier
CorrectText(questions, questionId) ==
  LET q == CHOOSE j \in DOMAIN questions : questions[j].question_id = questionId
      flagged == {o \in DOMAIN questions[q].options : questions[q].options[o].is_correct}
  IN {questions[q].options[o].option_text : o \in flagged}

\* C22: a successful submitAnswer for question q changes exactly the response
\* slot of q: its student_answer and time_spent become the submitted ones and
\* its is_correct is true exactly when the submitted answer is the text of
\* the option flagged correct for q in the snapshot; every other slot and the
\* question list stay as they were.
C22_SubmitAnswerUpdatesSlot ==
  [][(Served("submitAnswer") /\ last'.result = "ok") =>
       LET before == executions[last'.id]
           after == executions'[last'.id]
           updateData == last'.arg[1]
           slots == {i \in DOMAIN before.responses :
                       before.responses[i].question_id.v = updateData.question_id.v}
       IN /\ Cardinality(slots) = 1
          /\ after.questions = before.questions
          /\ DOMAIN after.responses = DOMAIN before.responses
          /\ \A i \in DOMAIN before.responses :
               IF i \in slots
               THEN /\ after.responses[i].question_id = before.responses[i].question_id
                    /\ after.responses[i].student_answer = updateData.student_answer
                    /\ after.responses[i].time_spent = updateData.time_spent
                    /\ after.responses[i].is_correct =
                         BoolStr(updateData.student_answer \in
                                   CorrectText(before.questions, before.responses[i].question_id))
               ELSE after.responses[i] = before.responses[i]]_vars

\* submitAnswer has stored a correct answer for question 1 and left the slot
\* of question 2 unanswered
C22_FirstSlotAnswered ==
  /\ last.op = "submitAnswer"
  /\ last.result = "ok"
  /\ last.arg[1].question_id = Num(1)
  /\ \E i, j \in DOMAIN executions[last.id].responses :
       /\ executions[last.id].responses[i].question_id = Num(1)
       /\ executions[last.id].responses[i].student_answer = "A"
       /\ executions[last.id].responses[i].is_correct = "true"
       /\ executions[last.id].responses[i].time_spent = 3
       /\ executions[last.id].responses[j].question_id = Num(2)
       /\ executions[last.id].responses[j].student_answer = NoAnswer

\* C23: a successful pause acts on an IN_PROGRESS execution and sets status
\* PAUSED and paused_at = now; a successful resume acts on a PAUSED execution
\* and sets status IN_PROGRESS and paused_at null; neither changes anything
\* else, so resuming the row a pause produced gives the row before the pause
\* with paused_at null: started_at, completed_at, score and test data are
\* the same.
C23_PauseResume ==
  [][/\ (Served("pause") /\ last'.result = "ok") =>
          LET before == executions[last'.id]
              after == executions'[last'.id]
          IN /\ before.status = "IN_PROGRESS"
             /\ after = [before EXCEPT !.status = "PAUSED", !.paused_at = now]
             /\ ResumedRow(after) = [before EXCEPT !.paused_at = NULL]
     /\ (Served("resume") /\ last'.result = "ok") =>
          LET before == executions[last'.id]
              after == executions'[last'.id]
          IN /\ before.status = "PAUSED"
             /\ after.status = "IN_PROGRESS"
             /\ after.paused_at = NULL
             /\ after.started_at = before.started_at
             /\ after.completed_at = before.completed_at
             /\ after.score = before.score
             /\ after.questions = before.questions
             /\ after.responses = before.responses
             /\ after.endTime = before.endTime
             /\ after = [before EXCEPT !.status = "IN_PROGRESS", !.paused_at = NULL]]_vars

\* an execution that was started and paused has been resumed
C23_Resumed ==
  /\ last.op = "resume"
  /\ last.result = "ok"
  /\ last.before = "PAUSED"
  /\ executions[last.id].status = "IN_PROGRESS"
  /\ executions[last.id].paused_at = NULL
  /\ executions[last.id].started_at # NULL

\* C24: the snapshot of a test plan that was created holds, for every
\* difficulty bucket of the resolved target distribution, exactly the number
\* of questions the distribution assigns to the bucket.
C24_BucketsHonoured ==
  [][(/\ Served("createTestPlan")
      /\ last'.created
      /\ DifficultyBuckets(PlanConfiguration)) =>
       LET questions == executions'[Len(executions')].questions
           target == ResolveQuestionCounts(PlanConfiguration)
       IN \A key \in DOMAIN target :
            /\ key \in DOMAIN difficultyMap
            /\ Cardinality({i \in DOMAIN questions :
                              questions[i].difficulty_level = difficultyMap[key]})
                 = target[key]]_vars

\* the keys of questionCounts that are identifiers of the configured topics
TopicKeys(configuration) ==
  {NumStr(configuration.topics[i]) : i \in DOMAIN configuration.topics}
    \cap DOMAIN configuration.questionCounts

\* the keys that name a difficulty: a label or a numeric string 1 to 5
DifficultyKeys == DifficultyLabels \cup {"1", "2", "3", "4", "5"}

\* the level a difficulty key stands for, as the key of the distribution
LevelKey(key) ==
  CASE key = "EASY" -> "1" [] key = "MEDIUM" -> "2" [] key = "HARD" -> "3" [] OTHER -> key

\* the target distribution in the order topic-keyed, difficulty-keyed,
\* default
ExpectedTarget(configuration) ==
  LET counts == configuration.questionCounts
      total == SumValues(counts)
  IN IF TopicKeys(configuration) # {}
     THEN [key \in {NumStr(configuration.topics[i]) : i \in DOMAIN configuration.topics} |->
             IF key \in DOMAIN counts THEN counts[key] ELSE 0]
     ELSE IF DOMAIN counts # {} /\ DOMAIN counts \subseteq DifficultyKeys
     THEN [level \in {LevelKey(key) : key \in DOMAIN counts} |->
             counts[CHOOSE key \in DOMAIN counts : LevelKey(key) = level]]
     ELSE [level \in {"1", "2", "3"} |->
             (total \div 3) + (IF difficultyMap[level] <= total % 3 THEN 1 ELSE 0)]

\* C25: the question counts createTestPlan resolves are the topic-keyed
\* counts when keys of questionCounts are identifiers of the configured
\* topics; otherwise the given counts keyed by level when the keys are
\* EASY/MEDIUM/HARD or numeric strings 1 to 5; and only otherwise the sum of
\* the counts split evenly over levels 1, 2, 3.
C25_ResolutionOrder ==
  [][Served("createTestPlan") =>
       last'.counts = ExpectedTarget(PlanConfiguration)]_vars

\* C26: in every reachable state an execution whose status is COMPLETED has
\* a score and a completion time.
C26_CompletedIsScored ==
  \A e \in DOMAIN executions :
    executions[e].status = "COMPLETED" =>
      /\ executions[e].score # NULL
      /\ executions[e].completed_at # NULL

\* C27: in every reachable state an execution that is IN_PROGRESS, PAUSED or
\* COMPLETED has a start time, and an execution with a completion time has a
\* start time.
C27_StartedAtSet ==
  \A e \in DOMAIN executions :
    /\ executions[e].status \in {"IN_PROGRESS", "PAUSED", "COMPLETED"} =>
         executions[e].started_at # NULL
    /\ executions[e].completed_at # NULL => executions[e].started_at # NULL

\* the start requests that succeeded on one execution
StartsSucceeded(executionId) ==
  {p \in Requests : /\ inflight[p].op = "start"
                    /\ inflight[p].pc = "done"
                    /\ inflight[p].result = "ok"
                    /\ inflight[p].executionId = executionId}

\* C28: however two start requests for one NOT_STARTED execution interleave,
\* at most one of them succeeds, and a start time that is set is never
\* overwritten.
C28_SingleStart ==
  [][\A e \in DOMAIN executions :
       /\ Cardinality(StartsSucceeded(e))' <= 1
       /\ executions[e].started_at # NULL =>
            executions'[e].started_at = executions[e].started_at]_vars

\* the executions of a plan that have not been started
NotStartedOf(planId) ==
  {e \in PlanExecutions(planId) : executions[e].status = "NOT_STARTED"}

\* C29: in every reachable state a test plan has at most one execution in
\* status NOT_STARTED, however createExecution requests for the plan overlap
\* or are repeated.
C29_OneNotStarted ==
  \A planId \in DOMAIN plans : Cardinality(NotStartedOf(planId)) <= 1

\* C30: test-plan creation is all-or-nothing: in every reachable state every
\* persisted test plan has at least one execution, also when the write of the
\* execution fails after the write of the plan.
C30_PlanHasExecution ==
  \A planId \in DOMAIN plans : PlanExecutions(planId) # {}
====
